---------------------------- MODULE Spec2Model ----------------------------
(***************************************************************************)
(* A model of jma_scraper.py: the jma class, its constructor               *)
(* (jma._load_stations) and jma.amedas.                                    *)
(*                                                                         *)
(* Strings whose characters the code inspects (the station argument, the   *)
(* name columns of the station list) are sequences of one-character        *)
(* strings.  Dates are records [y, m, d]; a datetime adds an hour and a    *)
(* UTC offset in hours (NoTz for a naive datetime).  The content of a      *)
(* fetched page is opaque: a fetch raises, returns no table, or returns a  *)
(* first table of which `rows` rows survive the post-processing.           *)
(***************************************************************************)
EXTENDS Integers, Sequences, FiniteSets, TLC

(***************************************************************************)
(* Bounds of the model.                                                    *)
(***************************************************************************)
\* The longest interval of a call, in periods (days, months or years).
MaxPeriods == 3

(***************************************************************************)
(* Program constants.                                                      *)
(***************************************************************************)
\* JST = timezone(timedelta(hours=9), "JST")
JSTOffset == 9
\* block_no is zero-filled to four characters
BlockNoWidth == 4
\* start = end - timedelta(days=0)
DefaultStartDays == 0
\* end = (datetime.now(JST) - timedelta(days=1)).date()
DefaultEndDays == 1
\* the default out_dir
OutDir == "csv/amedas"

(***************************************************************************)
(* Strings.                                                                *)
(***************************************************************************)
Space == " "

RECURSIVE LStrip(_)
\* str.strip(), the leading part
LStrip(s) ==
    IF s # <<>> /\ Head(s) = Space THEN LStrip(Tail(s)) ELSE s

RECURSIVE RStrip(_)
\* str.strip(), the trailing part
RStrip(s) ==
    IF s # <<>> /\ s[Len(s)] = Space THEN RStrip(SubSeq(s, 1, Len(s) - 1)) ELSE s

\* str.strip()
Strip(s) == RStrip(LStrip(s))

\* "(" in station
Contains(s, c) == \E i \in 1..Len(s) : s[i] = c

\* station.endswith(")")
EndsWith(s, c) == s # <<>> /\ s[Len(s)] = c

\* str.split("(", 1): the parts before and after the first "(" of a string
\* that holds one
SplitFirst(s, c) ==
    LET i == CHOOSE k \in 1..Len(s) : s[k] = c /\ \A j \in 1..(k - 1) : s[j] # c
    IN  <<SubSeq(s, 1, i - 1), SubSeq(s, i + 1, Len(s))>>

\* One decimal digit as a character
Digit(n) == CASE n = 0 -> "0" [] n = 1 -> "1" [] n = 2 -> "2" [] n = 3 -> "3"
              [] n = 4 -> "4" [] n = 5 -> "5" [] n = 6 -> "6" [] n = 7 -> "7"
              [] n = 8 -> "8" [] OTHER -> "9"

RECURSIVE ToStr(_)
\* astype(str) of a non-negative integer
ToStr(n) == IF n < 10 THEN <<Digit(n)>> ELSE Append(ToStr(n \div 10), Digit(n % 10))

RECURSIVE ZFill(_, _)
\* str.zfill(width)
ZFill(s, w) == IF Len(s) >= w THEN s ELSE ZFill(<<"0">> \o s, w)

(***************************************************************************)
(* Dates: datetime.date and its arithmetic.                                *)
(***************************************************************************)
Date(y, m, d) == [y |-> y, m |-> m, d |-> d]

IsLeap(y) == y % 4 = 0 /\ (y % 100 # 0 \/ y % 400 = 0)

DaysInMonth(y, m) ==
    IF m = 2 THEN (IF IsLeap(y) THEN 29 ELSE 28)
    ELSE IF m \in {4, 6, 9, 11} THEN 30 ELSE 31

\* date + timedelta(days=1)
NextDay(dt) ==
    IF dt.d < DaysInMonth(dt.y, dt.m) THEN Date(dt.y, dt.m, dt.d + 1)
    ELSE IF dt.m < 12 THEN Date(dt.y, dt.m + 1, 1)
    ELSE Date(dt.y + 1, 1, 1)

\* date - timedelta(days=1)
PrevDay(dt) ==
    IF dt.d > 1 THEN Date(dt.y, dt.m, dt.d - 1)
    ELSE IF dt.m > 1 THEN Date(dt.y, dt.m - 1, DaysInMonth(dt.y, dt.m - 1))
    ELSE Date(dt.y - 1, 12, 31)

RECURSIVE MinusDays(_, _)
\* date - timedelta(days=n), n >= 0
MinusDays(dt, n) == IF n = 0 THEN dt ELSE MinusDays(PrevDay(dt), n - 1)

\* date <= date
DateLE(a, b) ==
    \/ a.y < b.y
    \/ a.y = b.y /\ a.m < b.m
    \/ a.y = b.y /\ a.m = b.m /\ a.d <= b.d

(***************************************************************************)
(* The arguments start and end: None, a datetime, or (on the recursive     *)
(* call of granularity "all") a date.                                      *)
(***************************************************************************)
NoTz == 99
NoDate == Date(0, 0, 0)
None == [kind |-> "none", date |-> NoDate, hour |-> 0, tz |-> NoTz]
DateTime(dt, h, tz) == [kind |-> "datetime", date |-> dt, hour |-> h, tz |-> tz]
DateArg(dt) == [kind |-> "date", date |-> dt, hour |-> 0, tz |-> NoTz]

\* (x.astimezone(JST) if x.tzinfo else x.replace(tzinfo=JST)).date()
ToJSTDate(x) ==
    IF x.tz = NoTz THEN x.date
    ELSE LET h == x.hour - x.tz + JSTOffset
         IN  IF h >= 24 THEN NextDay(x.date)
             ELSE IF h < 0 THEN PrevDay(x.date)
             ELSE x.date

\* pandas.date_range(start, end, freq="MS"), start and end first days of months
RECURSIVE MonthRange(_, _)
MonthRange(a, b) ==
    IF ~DateLE(a, b) THEN <<>>
    ELSE <<a>> \o MonthRange(IF a.m < 12 THEN Date(a.y, a.m + 1, 1)
                                        ELSE Date(a.y + 1, 1, 1), b)

\* pandas.date_range(start, end, freq="YS"), start and end first days of years
RECURSIVE YearRange(_, _)
YearRange(a, b) ==
    IF ~DateLE(a, b) THEN <<>> ELSE <<a>> \o YearRange(Date(a.y + 1, 1, 1), b)

(***************************************************************************)
(* The station list: the remote file and the locally cached file.  A row   *)
(* holds the columns amedas reads: prec_no, block_no, name, group_name.    *)
(***************************************************************************)
Row(p, b, n, g) == [prec_no |-> p, block_no |-> b, name |-> n, group_name |-> g]

\* The content served at STATION_LIST_URL.  Names may carry blanks; two rows
\* may share a name, and nothing in the file format keeps two rows from
\* sharing name and group.
RemoteList ==
    << Row(14, 47412, <<"A">>, <<"x">>),
       Row(34, 590, <<"B", " ">>, <<"x">>),
       Row(72, 47891, <<"B">>, <<" ", "y">>),
       Row(82, 7, <<"C">>, <<"z">>),
       Row(83, 8, <<"C">>, <<"z">>) >>

\* The content of STATION_LIST_LOCAL left by an earlier run.
CachedList ==
    << Row(14, 47412, <<"A">>, <<"x">>),
       Row(34, 590, <<"B">>, <<"x">>),
       Row(72, 47891, <<"B">>, <<"y">>) >>

NoFile == [exists |-> FALSE, rows |-> <<>>]
File(rows) == [exists |-> TRUE, rows |-> rows]

\* What a failed fh.write may leave of the content in the file that
\* open(..., "wb") has truncated: a prefix of it, in rows.
PartialWrites == {0, 1}

\* The step of the update at which an exception is raised ("none": no step)
UpdateSteps == {"none", "request", "status", "open", "write"}

\* The file after the try block of _load_stations
UpdatedFile(f, failedAt, partial) ==
    CASE failedAt = "none" -> File(RemoteList)
      [] failedAt = "write" -> File(SubSeq(RemoteList, 1, partial))
      [] OTHER -> f

\* pd.read_csv and the normalisation of name, group_name and block_no
ReadStations(f) ==
    [i \in 1..Len(f.rows) |->
        [prec_no |-> f.rows[i].prec_no,
         block_no |-> ZFill(ToStr(f.rows[i].block_no), BlockNoWidth),
         name |-> Strip(f.rows[i].name),
         group_name |-> Strip(f.rows[i].group_name)]]

(***************************************************************************)
(* State.                                                                  *)
(***************************************************************************)
VARIABLES
    pc,           \* where the program is
    file,         \* STATION_LIST_LOCAL
    updateErr,    \* the step at which the update of the station list failed
    stations,     \* self.stations
    station,      \* amedas: the argument station
    given,        \* whether the caller gave start and end
    start,        \* amedas: start, the argument and then the JST date
    end,          \* amedas: end, the argument and then the JST date
    granularity,  \* amedas: the argument granularity
    now,          \* the reading of datetime.now(JST), as a date and an hour
    outer,        \* the frame of an amedas call of granularity "all"
    row,          \* amedas: prec_no and block_no of the station
    current,      \* hourly loop: current
    pending,      \* daily and monthly loops: the rest of months / years
    frames,       \* amedas: frames
    log,          \* the page fetches issued by the call, with their outcomes
    made,         \* the directories the call has made (os.makedirs)
    written,      \* the files the call has written (df.to_csv)
    result,       \* the value the call returned
    exc           \* the exception the call (or the constructor) raised

vars == <<pc, file, updateErr, stations, station, given, start, end, granularity, now,
          outer, row, current, pending, frames, log, made, written, result, exc>>

NoStation == <<>>
NoOuter == [active |-> FALSE, start |-> NoDate, end |-> NoDate, gi |-> 0, dfs |-> <<>>]
NoGiven == [start |-> FALSE, end |-> FALSE]
NoRow == [prec_no |-> 0, block_no |-> <<>>]
NoResult == [returned |-> FALSE, cols |-> FALSE, parts |-> <<>>]

\* pd.DataFrame()
EmptyFrame == [returned |-> TRUE, cols |-> FALSE, parts |-> <<>>]

\* pd.concat(frames, ignore_index=True) of a non-empty list
Concat(fs) == [returned |-> TRUE, cols |-> TRUE, parts |-> fs]

RECURSIVE RowCount(_)
\* The number of rows of a frame made of parts
RowCount(parts) ==
    IF parts = <<>> THEN 0 ELSE Head(parts).rows + RowCount(Tail(parts))

\* df.empty
DfEmpty(df) == ~df.cols \/ RowCount(df.parts) = 0

\* The locals of a call that has not started
callIdle ==
    /\ station = NoStation /\ given = NoGiven /\ start = None /\ end = None
    /\ granularity = "" /\ now = None /\ outer = NoOuter
    /\ row = NoRow /\ current = NoDate /\ pending = <<>> /\ frames = <<>>
    /\ log = <<>> /\ made = {} /\ written = <<>>
    /\ result = NoResult /\ exc = ""

Init ==
    /\ pc = "new"
    /\ file \in {NoFile, File(CachedList)}
    /\ updateErr = "none"
    /\ stations = <<>>
    /\ callIdle

(***************************************************************************)
(* jma.__init__ / jma._load_stations                                       *)
(***************************************************************************)
Construct ==
    /\ pc = "new"
    /\ \E failedAt \in UpdateSteps, partial \in PartialWrites :
        LET f == UpdatedFile(file, failedAt, partial)
        IN  /\ file' = f
            /\ updateErr' = failedAt
            /\ IF failedAt # "none" /\ ~f.exists
               THEN /\ pc' = "ctor_raised"
                    /\ exc' = "update"
                    /\ stations' = stations
               ELSE /\ pc' = "idle"
                    /\ exc' = exc
                    /\ stations' = ReadStations(f)
    /\ UNCHANGED <<station, given, start, end, granularity, now, outer, row,
                   current, pending, frames, log, made, written, result>>

(***************************************************************************)
(* The inputs of a call.                                                   *)
(***************************************************************************)
StationArgs ==
    { <<"A">>,                          \* a unique name
      <<"B">>,                          \* a name two groups share
      <<"B", "(", "x", ")">>,           \* qualified by its group
      <<"B", " ", "(", " ", "y", ")">>, \* qualified, with blanks
      <<"B", "(", "z", ")">>,           \* qualified by a group without it
      <<"C", "(", "z", ")">>,           \* qualified, two rows of the group
      <<"D">>,                          \* unknown
      <<"A", "(", ")">>,                \* an empty group
      <<"A", "(", "x">> }               \* no closing parenthesis

SampleDates ==
    { Date(2023, 12, 31), Date(2024, 2, 28), Date(2024, 3, 1), Date(2025, 2, 28) }

\* A naive datetime, one in UTC late in the day (the next day in Japan) and
\* one at UTC+12 early in the day (the day before in Japan)
TimeArgs ==
    {None} \cup { DateTime(dt, 1, NoTz) : dt \in SampleDates }
           \cup { DateTime(dt, 20, 0) : dt \in SampleDates }
           \cup { DateTime(dt, 1, 12) : dt \in SampleDates }

\* Readings of datetime.now(JST)
Clock == { DateTime(Date(2024, 3, 1), 0, JSTOffset),
           DateTime(Date(2024, 1, 1), 23, JSTOffset) }

Granularities == {"all", "hourly", "daily", "monthly", "weekly"}

\* The outcome of pd.read_html: an exception (a network error or a parser
\* error), an empty list, or a list whose first table keeps `rows` rows
Outcome(kind, rows, err) == [kind |-> kind, rows |-> rows, err |-> err]
Outcomes ==
    { Outcome("exc", 0, "URLError"), Outcome("exc", 0, "ValueError"),
      Outcome("none", 0, ""), Outcome("table", 0, ""), Outcome("table", 1, "") }

(***************************************************************************)
(* Days since 1970-01-01 and back, by arithmetic on the proleptic          *)
(* Gregorian calendar: the measure the intervals of a call are bounded and *)
(* judged by.                                                              *)
(***************************************************************************)
DaysFromCivil(dt) ==
    LET y   == IF dt.m <= 2 THEN dt.y - 1 ELSE dt.y
        era == y \div 400
        yoe == y - era * 400
        mp  == IF dt.m > 2 THEN dt.m - 3 ELSE dt.m + 9
        doy == (153 * mp + 2) \div 5 + dt.d - 1
        doe == yoe * 365 + yoe \div 4 - yoe \div 100 + doy
    IN  era * 146097 + doe - 719468

CivilFromDays(n) ==
    LET z   == n + 719468
        era == z \div 146097
        doe == z - era * 146097
        yoe == (doe - doe \div 1460 + doe \div 36524 - doe \div 146096) \div 365
        doy == doe - (365 * yoe + yoe \div 4 - yoe \div 100)
        mp  == (5 * doy + 2) \div 153
        d   == doy - (153 * mp + 2) \div 5 + 1
        m   == IF mp < 10 THEN mp + 3 ELSE mp - 9
        y   == yoe + era * 400
    IN  Date(IF m <= 2 THEN y + 1 ELSE y, m, d)

\* The calendar day in Japan of an instant given as local date, hour and offset
JSTDay(x) ==
    IF x.tz = NoTz THEN x.date
    ELSE CivilFromDays((DaysFromCivil(x.date) * 24 + x.hour - x.tz + 9) \div 24)

MonthIndex(dt) == dt.y * 12 + dt.m - 1

\* The number of periods of granularity g from day a to day b
PeriodCount(g, a, b) ==
    LET n == CASE g = "hourly" -> DaysFromCivil(b) - DaysFromCivil(a) + 1
               [] g = "daily" -> MonthIndex(b) - MonthIndex(a) + 1
               [] g = "monthly" -> b.y - a.y + 1
               [] OTHER -> 0
    IN  IF n < 0 THEN 0 ELSE n

\* The interval of the call is within the bound of the model
WithinBounds(g, a, b, n) ==
    LET e == IF b = None THEN CivilFromDays(DaysFromCivil(n.date) - 1) ELSE JSTDay(b)
        s == IF a = None THEN e ELSE JSTDay(a)
    IN  PeriodCount(g, s, e) <= MaxPeriods

(***************************************************************************)
(* jma.amedas                                                              *)
(***************************************************************************)
\* A caller (the loop over cities of main) calls scraper.amedas
Call ==
    /\ pc = "idle"
    /\ \E s \in StationArgs, a \in TimeArgs, b \in TimeArgs,
          g \in Granularities, n \in Clock :
        /\ WithinBounds(g, a, b, n)
        /\ station' = s
        /\ given' = [start |-> a # None, end |-> b # None]
        /\ start' = a
        /\ end' = b
        /\ granularity' = g
        /\ now' = n
    /\ pc' = "called"
    /\ UNCHANGED <<file, updateErr, stations, outer, row, current, pending,
                   frames, log, made, written, result, exc>>

\* Lines 106-124: start and end become dates in Japan; a date has no tzinfo
Normalize ==
    /\ pc = "called"
    /\ LET e == IF end.kind = "none"
                THEN MinusDays(ToJSTDate(now), DefaultEndDays)
                ELSE ToJSTDate(end)
           s == IF start.kind = "none"
                THEN MinusDays(e, DefaultStartDays)
                ELSE ToJSTDate(start)
       IN  IF end.kind = "date" \/ start.kind = "date"
           THEN /\ pc' = "raised"
                /\ exc' = "AttributeError"
                /\ end' = IF end.kind = "date" THEN end ELSE DateArg(e)
                /\ UNCHANGED <<start, outer>>
           ELSE /\ end' = DateArg(e)
                /\ start' = DateArg(s)
                /\ exc' = exc
                /\ IF granularity = "all"
                   THEN /\ pc' = "all"
                        /\ outer' = [active |-> TRUE, start |-> s, end |-> e,
                                     gi |-> 1, dfs |-> <<>>]
                   ELSE /\ pc' = "resolve"
                        /\ outer' = outer
    /\ UNCHANGED <<file, updateErr, stations, station, given, granularity, now, row,
                   current, pending, frames, log, made, written, result>>

AllGranularities == <<"hourly", "daily", "monthly">>

RECURSIVE ConcatParts(_)
\* The parts of pd.concat(dfs, ignore_index=True)
ConcatParts(dfs) ==
    IF dfs = <<>> THEN <<>> ELSE Head(dfs).parts \o ConcatParts(Tail(dfs))

\* Lines 124-130: the loop of granularity "all", one recursive call or the
\* return
AllStep ==
    /\ pc = "all"
    /\ IF outer.gi <= Len(AllGranularities)
       THEN /\ pc' = "called"
            /\ start' = DateArg(outer.start)
            /\ end' = DateArg(outer.end)
            /\ granularity' = AllGranularities[outer.gi]
            /\ UNCHANGED <<outer, result>>
       ELSE /\ pc' = "returned"
            /\ result' = IF outer.dfs # <<>> THEN Concat(ConcatParts(outer.dfs))
                                            ELSE EmptyFrame
            /\ outer' = NoOuter
            /\ UNCHANGED <<start, end, granularity>>
    /\ UNCHANGED <<file, updateErr, stations, station, given, now, row, current,
                   pending, frames, log, made, written, exc>>

\* Lines 132-137: the name and the group of the argument station; no group
\* is the empty string
ParseStation(st) ==
    IF Contains(st, "(") /\ EndsWith(st, ")")
    THEN LET parts == SplitFirst(SubSeq(st, 1, Len(st) - 1), "(")
         IN  [name |-> Strip(parts[1]), group |-> Strip(parts[2])]
    ELSE [name |-> st, group |-> <<>>]

\* Lines 139-145: the rows of the station list the argument selects
MatchRows(tbl, st) ==
    LET p == ParseStation(st)
    IN  IF p.group # <<>>
        THEN SelectSeq(tbl, LAMBDA r : r.name = p.name /\ r.group_name = p.group)
        ELSE SelectSeq(tbl, LAMBDA r : r.name = p.name)

\* Lines 146-152: the ValueError the resolution of the station raises, if any
StationError(tbl, st) ==
    LET p == ParseStation(st)
        rows == MatchRows(tbl, st)
    IN  IF p.group = <<>> /\ Len(rows) > 1 THEN "ValueError: not unique"
        ELSE IF rows = <<>> THEN "ValueError: unknown station"
        ELSE ""

\* Lines 158, 196, 236, 266: the branches of the granularity
Supported(g) == g \in {"hourly", "daily", "monthly"}

\* A loop that leaves out the day of end: "current < end"
HourlyContinuesStrict(cur, e) == DateLE(cur, e) /\ cur # e

\* The months from start itself, which leaves out the month of a start that
\* is not its first day: date_range(start, end_month, freq="MS")
DailyPeriodsFromStart(s, e) ==
    MonthRange(IF s.d = 1 THEN s
               ELSE IF s.m < 12 THEN Date(s.y, s.m + 1, 1)
               ELSE Date(s.y + 1, 1, 1),
               Date(e.y, e.m, 1))

\* The years from start itself, which leaves out the year of a start that
\* is not its first day: date_range(start, end_year, freq="YS")
MonthlyPeriodsFromStart(s, e) ==
    YearRange(IF s.m = 1 /\ s.d = 1 THEN s ELSE Date(s.y + 1, 1, 1),
              Date(e.y, 1, 1))

\* Line 160: the condition of the hourly loop
HourlyContinues(cur, e) == DateLE(cur, e)

\* Lines 197-199: the months of the daily loop
DailyPeriods(s, e) == MonthRange(Date(s.y, s.m, 1), Date(e.y, e.m, 1))

\* Lines 237-239: the years of the monthly loop
MonthlyPeriods(s, e) == YearRange(Date(s.y, 1, 1), Date(e.y, 1, 1))

\* Lines 132-158, 196-199, 236-239, 266-267: the station is resolved, then
\* the loop of the granularity is set up
Resolve ==
    /\ pc = "resolve"
    /\ LET err == StationError(stations, station)
           rows == MatchRows(stations, station)
       IN  IF err # ""
           THEN /\ pc' = "raised"
                /\ exc' = err
                /\ UNCHANGED <<row, current, pending>>
           ELSE /\ row' = [prec_no |-> rows[1].prec_no, block_no |-> rows[1].block_no]
                /\ IF ~Supported(granularity)
                   THEN /\ pc' = "raised"
                        /\ exc' = "ValueError: unsupported granularity"
                        /\ UNCHANGED <<current, pending>>
                   ELSE /\ pc' = granularity
                        /\ exc' = exc
                        /\ current' = IF granularity = "hourly" THEN start.date
                                                                ELSE current
                        /\ pending' =
                             CASE granularity = "daily" ->
                                    DailyPeriods(start.date, end.date)
                               [] granularity = "monthly" ->
                                    MonthlyPeriods(start.date, end.date)
                               [] OTHER -> pending
    /\ UNCHANGED <<file, updateErr, stations, station, given, start, end, granularity,
                   now, outer, frames, log, made, written, result>>

\* The request of one page
Url(page, y, m, d) ==
    [page |-> page, prec_no |-> row.prec_no, block_no |-> row.block_no,
     year |-> y, month |-> m, day |-> d]

\* A handler that catches network errors only
CaughtNetworkOnly(err) == err = "URLError"

\* A handler that forgets to advance: the day is fetched again
AfterFailureRetry(cur) == cur

\* A loop without the check "if not tables"
NoTablesUnchecked(o) == FALSE

\* "except Exception": every exception of the fetch is caught
Caught(err) == TRUE

\* Line 174: the day after a fetch that raised
AfterFailure(cur) == NextDay(cur)

\* Line 178: the day after a fetch that found no table
AfterNoTable(cur) == NextDay(cur)

\* Line 194: the day after a fetch that was saved
AfterSaved(cur) == NextDay(cur)

\* Lines 177, 216, 256: "if not tables"
NoTables(o) == o.kind = "none"

\* What a loop does with the outcome o of the fetch of `url` for period cur:
\* log and skip, skip, or keep the frame and write the file `fname` in `dir`
Handle(o, url, cur, dir, stamp) ==
    /\ log' = Append(log, [url |-> url, period |-> cur, outcome |-> o])
    /\ IF o.kind = "exc"
       THEN /\ IF Caught(o.err)
               THEN pc' = pc /\ exc' = exc
               ELSE pc' = "raised" /\ exc' = o.err
            /\ UNCHANGED <<frames, made, written>>
       ELSE IF NoTables(o)
       THEN UNCHANGED <<pc, exc, frames, made, written>>
       ELSE /\ frames' = Append(frames, [period |-> cur, rows |-> o.rows])
            /\ made' = made \cup {dir}
            /\ written' = Append(written,
                                 [dir |-> dir, station |-> station, stamp |-> stamp])
            /\ UNCHANGED <<pc, exc>>

\* Lines 159-194: one iteration of the hourly loop
HourlyStep ==
    /\ pc = "hourly"
    /\ HourlyContinues(current, end.date)
    /\ \E o \in Outcomes :
        /\ Handle(o, Url("hourly", current.y, current.m, current.d), current,
                  <<OutDir, current.y, current.m>>,
                  <<current.y, current.m, current.d>>)
        /\ current' = IF o.kind = "exc" THEN AfterFailure(current)
                      ELSE IF NoTables(o) THEN AfterNoTable(current)
                      ELSE AfterSaved(current)
    /\ UNCHANGED <<file, updateErr, stations, station, given, start, end, granularity,
                   now, outer, row, pending, result>>

\* Lines 200-234: one iteration of the daily loop
DailyStep ==
    /\ pc = "daily"
    /\ pending # <<>>
    /\ \E o \in Outcomes :
        LET cur == Head(pending)
        IN  /\ Handle(o, Url("daily", cur.y, cur.m, 1), cur,
                      <<OutDir, cur.y>>, <<cur.y, cur.m>>)
            /\ current' = cur
            /\ pending' = Tail(pending)
    /\ UNCHANGED <<file, updateErr, stations, station, given, start, end, granularity,
                   now, outer, row, result>>

\* Lines 240-264: one iteration of the monthly loop
MonthlyStep ==
    /\ pc = "monthly"
    /\ pending # <<>>
    /\ \E o \in Outcomes :
        LET cur == Head(pending)
        IN  /\ Handle(o, Url("monthly", cur.y, 1, 1), cur, <<OutDir>>, <<cur.y>>)
            /\ current' = cur
            /\ pending' = Tail(pending)
    /\ UNCHANGED <<file, updateErr, stations, station, given, start, end, granularity,
                   now, outer, row, result>>

\* The loop of the granularity has run out
LoopDone ==
    IF pc = "hourly" THEN ~HourlyContinues(current, end.date)
    ELSE pc \in {"daily", "monthly"} /\ pending = <<>>

\* Lines 269-273: the value a single-granularity call returns
Returned(fs) == IF fs = <<>> THEN EmptyFrame ELSE Concat(fs)

\* Lines 269-273, and lines 127-129 when the caller is the loop of "all"
Return ==
    /\ pc \in {"hourly", "daily", "monthly"}
    /\ LoopDone
    /\ LET df == Returned(frames)
       IN  IF outer.active
           THEN /\ pc' = "all"
                /\ outer' = [outer EXCEPT !.gi = @ + 1,
                                          !.dfs = IF DfEmpty(df) THEN @
                                                  ELSE Append(@, df)]
                /\ frames' = <<>>
                /\ UNCHANGED result
           ELSE /\ pc' = "returned"
                /\ result' = df
                /\ UNCHANGED <<outer, frames>>
    /\ UNCHANGED <<file, updateErr, stations, station, given, start, end, granularity,
                   now, row, current, pending, log, made, written, exc>>

\* The caller goes on to its next call
NextCall ==
    /\ pc = "returned"
    /\ pc' = "idle"
    /\ station' = NoStation /\ given' = NoGiven /\ start' = None /\ end' = None
    /\ granularity' = "" /\ now' = None /\ outer' = NoOuter
    /\ row' = NoRow /\ current' = NoDate /\ pending' = <<>> /\ frames' = <<>>
    /\ log' = <<>> /\ made' = {} /\ written' = <<>>
    /\ result' = NoResult /\ exc' = ""
    /\ UNCHANGED <<file, updateErr, stations>>

Next ==
    \/ Construct
    \/ Call
    \/ Normalize
    \/ AllStep
    \/ Resolve
    \/ HourlyStep
    \/ DailyStep
    \/ MonthlyStep
    \/ Return
    \/ NextCall

Spec == Init /\ [][Next]_vars

\* The program is sequential: a loop that can take a step takes it, and a
\* loop that has run out returns
FairSpec == Spec /\ WF_vars(HourlyStep) /\ WF_vars(Return)

(***************************************************************************)
(* The properties.                                                         *)
(***************************************************************************)
InLoop == pc \in {"hourly", "daily", "monthly"}

\* The rows of the station list that carry the name of the argument and,
\* when the argument names a group, that group
Candidates ==
    LET p == ParseStation(station)
    IN  { i \in DOMAIN stations :
            /\ stations[i].name = p.name
            /\ p.group # <<>> => stations[i].group_name = p.group }

\* The entries of the log whose fetch returned at least one table
Tables == SelectSeq(log, LAMBDA x : x.outcome.kind = "table")

\* The entries of the log whose fetch raised
Failures == { i \in DOMAIN log : log[i].outcome.kind = "exc" }

IsValueError(e) ==
    e \in {"ValueError", "ValueError: not unique", "ValueError: unknown station",
           "ValueError: unsupported granularity"}

\* The date a request asks for
UrlDate(u) == Date(u.year, u.month, u.day)

\* C1: a call of a single supported granularity reaches its loop of fetches
\* only when the station argument selects exactly one row of the station
\* list; with no row or several rows it raises ValueError.
C1_StationResolvesToOneRow ==
    /\ InLoop => Cardinality(Candidates) = 1
    /\ (pc = "resolve" /\ Supported(granularity)) =>
          (Cardinality(Candidates) # 1 <=> StationError(stations, station) # "")

\* C2: a call of granularity "all" on a station that resolves, with start
\* and end given as datetimes, does not end in an error.
C2_AllDoesNotRaise ==
    (outer.active /\ given.start /\ given.end
        /\ StationError(stations, station) = "") => pc # "raised"

\* The state of the hourly loop agrees with the calendar
HourlyInv ==
    (granularity = "hourly" /\ pc \in {"hourly", "returned"}) =>
        /\ \A i \in DOMAIN log :
              /\ log[i].url.page = "hourly"
              /\ UrlDate(log[i].url) =
                    CivilFromDays(DaysFromCivil(start.date) + i - 1)
        /\ Len(log) <= PeriodCount("hourly", start.date, end.date)
        /\ pc = "returned" =>
              Len(log) = PeriodCount("hourly", start.date, end.date)

\* C3: the fetches of an hourly call are the calendar days from start to
\* end inclusive, ascending, each once, whatever the outcomes; none when
\* start is later than end; and the loop terminates.
C3_HourlyFetchesEachDayOnce ==
    /\ []HourlyInv
    /\ (pc = "hourly") ~> (pc = "returned")

C3_Witness ==
    /\ pc = "returned" /\ granularity = "hourly"
    /\ start.date = Date(2024, 2, 28) /\ end.date = Date(2024, 3, 1)
    /\ Len(log) = 3
    /\ log[1].outcome.kind = "exc"
    /\ log[2].outcome.kind = "none"
    /\ log[3].outcome.kind = "table"

\* C4: the fetches of a daily call are the calendar months from the month
\* of start to the month of end inclusive, ascending, each once, whatever
\* the days of the month of start and end.
C4_DailyFetchesEachMonthOnce ==
    (granularity = "daily" /\ pc \in {"daily", "returned"}) =>
        /\ \A i \in DOMAIN log :
              /\ log[i].url.page = "daily"
              /\ log[i].url.day = 1
              /\ log[i].url.month \in 1..12
              /\ MonthIndex(UrlDate(log[i].url)) = MonthIndex(start.date) + i - 1
        /\ Len(log) <= PeriodCount("daily", start.date, end.date)
        /\ pc = "returned" =>
              Len(log) = PeriodCount("daily", start.date, end.date)

C4_Witness ==
    /\ pc = "returned" /\ granularity = "daily"
    /\ start.date = Date(2023, 12, 31) /\ end.date = Date(2024, 1, 1)
    /\ Len(log) = 2
    /\ UrlDate(log[1].url) = Date(2023, 12, 1)
    /\ UrlDate(log[2].url) = Date(2024, 1, 1)

\* C5: the fetches of a monthly call are the calendar years from the year
\* of start to the year of end inclusive, ascending, each once, whatever
\* the month and day of start and end.
C5_MonthlyFetchesEachYearOnce ==
    (granularity = "monthly" /\ pc \in {"monthly", "returned"}) =>
        /\ \A i \in DOMAIN log :
              /\ log[i].url.page = "monthly"
              /\ log[i].url.month = 1 /\ log[i].url.day = 1
              /\ log[i].url.year = start.date.y + i - 1
        /\ Len(log) <= PeriodCount("monthly", start.date, end.date)
        /\ pc = "returned" =>
              Len(log) = PeriodCount("monthly", start.date, end.date)

C5_Witness ==
    /\ pc = "returned" /\ granularity = "monthly"
    /\ start.date = Date(2023, 12, 31) /\ end.date = Date(2025, 2, 27)
    /\ Len(log) = 3
    /\ log[3].url.year = 2025

\* C6: in every loop a fetch that raises is skipped: the call does not
\* raise, the period is not fetched again, the later periods of the interval
\* are fetched, and the frames and files of the periods that succeeded,
\* before or after, are kept.
C6_FailedFetchIsSkipped ==
    \A i \in Failures :
        /\ pc # "raised"
        /\ \A j \in DOMAIN log : j # i => log[j].period # log[i].period
        /\ pc = "returned" =>
              Len(log) = PeriodCount(granularity, start.date, end.date)
        /\ Len(frames) = Len(Tables) /\ Len(written) = Len(Tables)
        /\ \A k \in DOMAIN Tables :
              /\ frames[k].period = Tables[k].period
              /\ written[k].stamp[1] = Tables[k].period.y

C6_Witness ==
    /\ pc = "returned" /\ granularity = "daily"
    /\ Len(log) = 3
    /\ log[1].outcome.kind = "table"
    /\ log[2].outcome.kind = "exc"
    /\ log[3].outcome.kind = "table"
    /\ Len(written) = 2

\* C7: a call without start takes as start the day before the effective
\* end, the effective end being the given end as a date in Japan or, without
\* end, the day before the current date in Japan.
C7_DefaultStartIsDayBeforeEnd ==
    [][(pc = "called" /\ start = None /\ pc' # "raised") =>
          /\ end'.date = IF end = None
                         THEN CivilFromDays(DaysFromCivil(JSTDay(now)) - 1)
                         ELSE JSTDay(end)
          /\ start'.date = CivilFromDays(DaysFromCivil(end'.date) - 1)]_vars

\* The expected stamp of the file of a period
Stamp(g, d) ==
    CASE g = "hourly" -> <<d.y, d.m, d.d>>
      [] g = "daily" -> <<d.y, d.m>>
      [] OTHER -> <<d.y>>

\* C8: when a single-granularity call has returned, the frames of the result
\* and the files written correspond one-to-one, in fetch order, to the
\* periods whose fetch returned a table, and the result is the empty frame
\* pd.DataFrame() exactly when no period produced a table.
C8_FramesAndFilesMatchTables ==
    (pc = "returned" /\ Supported(granularity)) =>
        /\ Len(result.parts) = Len(Tables)
        /\ Len(written) = Len(Tables)
        /\ \A k \in DOMAIN Tables :
              /\ result.parts[k].period = Tables[k].period
              /\ result.parts[k].rows = Tables[k].outcome.rows
              /\ written[k].station = station
              /\ written[k].stamp = Stamp(granularity, Tables[k].period)
              /\ written[k].dir \in made
        /\ Cardinality(made) <= Len(Tables)
        /\ result = EmptyFrame <=> Tables = <<>>

C8_Witness ==
    /\ pc = "returned" /\ granularity = "hourly"
    /\ Len(log) = 3
    /\ log[1].outcome.kind = "none"
    /\ log[2].outcome = Outcome("table", 0, "")
    /\ log[3].outcome.kind = "exc"
    /\ Len(written) = 1

\* C9: when the update of the station list fails at any step while a cached
\* list exists, the constructor does not raise and loads the cached file,
\* whose content is as before; it raises only when the update fails and no
\* cached file exists.
C9_FailedUpdateKeepsCache ==
    [][pc = "new" =>
          /\ (updateErr' # "none" /\ file.exists) =>
                /\ pc' = "idle"
                /\ file' = file
                /\ stations' = ReadStations(file)
          /\ pc' = "ctor_raised" => (updateErr' # "none" /\ ~file.exists)]_vars

\* C10: a call that ends by raising ValueError has fetched no page and
\* written no file and no directory.
C10_ValueErrorBeforeSideEffects ==
    (pc = "raised" /\ IsValueError(exc)) =>
        /\ log = <<>>
        /\ frames = <<>>
        /\ written = <<>>
        /\ made = {}

C10_Witness ==
    /\ pc = "raised"
    /\ exc = "ValueError: unsupported granularity"
    /\ Cardinality(Candidates) = 1

=============================================================================
